---- MODULE Spec2Model ----
(***************************************************************************)
(* A model of PromptManager (src/prompt_manager.py): the in-memory ordered *)
(* collection of Prompt records, its create / update operations, and the   *)
(* load / save protocol against the local staging file and the remote blob.*)
(***************************************************************************)
EXTENDS Integers, Sequences, FiniteSets, TLC

(* ------------------------------------------------------------------ *)
(* Bounds of the model                                                 *)
(* ------------------------------------------------------------------ *)
\* number of create_prompt calls explored (each consumes one uuid)
MaxCreates == 3
\* number of update_prompt calls explored
MaxUpdates == 2

(* ------------------------------------------------------------------ *)
(* Python values: every value carries its runtime type                 *)
(* ------------------------------------------------------------------ *)
PyStr(s) == [t |-> "str", s |-> s, n |-> 0]
PyInt(n) == [t |-> "int", s |-> "", n |-> n]
PyNone == [t |-> "none", s |-> "", n |-> 0]
\* the k-th string produced by str(uuid.uuid4()): fresh for every k
Uuid(k) == [t |-> "str", s |-> "uuid", n |-> k]

\* the ten fields of class Prompt, in declaration order
Fields ==
  {"id", "datapoint", "clause", "created_by", "query_prompt",
   "version", "evaluated", "status", "score", "notes"}

RequiredStrFields == {"datapoint", "clause", "created_by", "query_prompt"}
OptionalStrFields == {"id", "status", "notes"}
OptionalIntFields == {"version", "evaluated"}
OptionalDictFields == {"score"}

\* the declared default of an Optional field that the input omits
FieldDefault(f) ==
  CASE f = "version" -> PyInt(1)
    [] f = "evaluated" -> PyInt(0)
    [] f = "status" -> PyStr("latest")
    [] OTHER -> PyNone

\* decimal strings that pydantic's lax mode converts to an int
NumeralValue(s) ==
  CASE s = "0" -> 0
    [] s = "1" -> 1
    [] s = "2" -> 2
    [] s = "7" -> 7
    [] OTHER -> -1
IsNumeral(s) == NumeralValue(s) >= 0

\* does value v pass the validation of field f (pydantic, lax mode)?
FieldAccepts(f, v) ==
  CASE f \in RequiredStrFields -> v.t = "str"
    [] f \in OptionalStrFields -> v.t \in {"str", "none"}
    [] f \in OptionalIntFields ->
         v.t \in {"int", "none"} \/ (v.t = "str" /\ IsNumeral(v.s))
    [] f \in OptionalDictFields -> v.t \in {"dict", "none"}

\* the value stored for field f after validation of v (numerals become ints)
FieldCoerce(f, v) ==
  IF f \in OptionalIntFields /\ v.t = "str" /\ IsNumeral(v.s)
    THEN PyInt(NumeralValue(v.s))
    ELSE v

\* a validation that checks the required keys are present, not their types
PromptValid_presence(data) ==
  \A f \in RequiredStrFields : f \in DOMAIN data

\* Prompt(**data): data is a function from a set of keys to values.  Keys
\* that are not fields are ignored; a missing required field or a value of
\* the wrong type raises ValidationError (ok = FALSE).
PromptValid(data) ==
  /\ \A f \in RequiredStrFields : f \in DOMAIN data
  /\ \A f \in Fields \cap DOMAIN data : FieldAccepts(f, data[f])

Prompt(data) ==
  [f \in Fields |->
     IF f \in DOMAIN data THEN FieldCoerce(f, data[f]) ELSE FieldDefault(f)]

\* prompt_data["id"] = new_id
WithId(data, new_id) ==
  [k \in (DOMAIN data) \cup {"id"} |-> IF k = "id" THEN new_id ELSE data[k]]

\* a patch rebuilt as a new Prompt: the optional fields the map does not
\* name fall back to their declared defaults
model_copy_defaults(p, updated_data) ==
  [f \in Fields |->
     IF f \in DOMAIN updated_data THEN updated_data[f]
     ELSE IF f \in {"version", "evaluated", "status"} THEN FieldDefault(f)
     ELSE p[f]]

\* model_copy(update=updated_data): a copy with the given keys overwritten;
\* pydantic does not validate the update
model_copy(p, updated_data) ==
  [f \in Fields |-> IF f \in DOMAIN updated_data THEN updated_data[f] ELSE p[f]]

(* ------------------------------------------------------------------ *)
(* The snapshot format: json.dump of model_dump, json.load             *)
(* ------------------------------------------------------------------ *)
\* a Python value as a JSON value
ToJson(v) ==
  CASE v.t = "str" -> [j |-> "string", s |-> v.s, n |-> v.n]
    [] v.t = "int" -> [j |-> "number", s |-> "", n |-> v.n]
    [] v.t = "dict" -> [j |-> "object", s |-> "", n |-> 0]
    [] OTHER -> [j |-> "null", s |-> "", n |-> 0]

\* a JSON value as the Python value json.load builds
FromJson(x) ==
  CASE x.j = "string" -> [t |-> "str", s |-> x.s, n |-> x.n]
    [] x.j = "number" -> PyInt(x.n)
    [] x.j = "object" -> [t |-> "dict", s |-> "", n |-> 0]
    [] OTHER -> PyNone

\* [prompt.model_dump() for prompt in self.prompts] written as a JSON array
Dump(prompts) ==
  [i \in 1..Len(prompts) |-> [f \in Fields |-> ToJson(prompts[i][f])]]

\* json.load: the array of dicts read back
Parse(json) ==
  [i \in 1..Len(json) |-> [k \in DOMAIN json[i] |-> FromJson(json[i][k])]]

\* a file or blob: whether it exists, and the JSON array it holds
NoFile == [exists |-> FALSE, json |-> FALSE, data |-> <<>>]
FileOf(json) == [exists |-> TRUE, json |-> TRUE, data |-> json]
\* a file opened for writing and never written: present, empty, not JSON
EmptyFile == [exists |-> TRUE, json |-> FALSE, data |-> <<>>]

\* what the local file system and the blob store do during one save / load
SaveIoModes == {"ok", "local_write_fails", "upload_fails"}
LoadIoModes == {"ok", "local_write_fails", "download_fails"}

\* the attributes __init__ has assigned when it calls _load_prompts (line 27)
AttrsAtLoad == {"file_path"}
\* the attributes of a constructed PromptManager (lines 26-35)
AttrsAfterInit ==
  {"file_path", "prompts", "connection_url", "container_name", "credential",
   "blob_service_client", "container_client"}

\* _load_prompts: reading an attribute that is not set raises AttributeError,
\* which the broad except turns into an empty collection
_load_prompts(attrs, remote, localFile, io) ==
  IF "container_client" \notin attrs \/ "local_file_path" \notin attrs
    THEN [prompts |-> <<>>, localFile |-> localFile, outcome |-> "attribute_error"]
  ELSE IF ~remote.exists
    THEN [prompts |-> <<>>, localFile |-> localFile, outcome |-> "blob_not_found"]
  ELSE IF io = "local_write_fails"
    THEN [prompts |-> <<>>, localFile |-> localFile, outcome |-> "io_error"]
  ELSE IF io = "download_fails"
    THEN [prompts |-> <<>>, localFile |-> EmptyFile, outcome |-> "io_error"]
  ELSE IF ~remote.json
    THEN [prompts |-> <<>>, localFile |-> remote, outcome |-> "parse_error"]
  ELSE LET data == Parse(remote.data) IN
    IF \A i \in 1..Len(data) : PromptValid(data[i])
      THEN [prompts |-> [i \in 1..Len(data) |-> Prompt(data[i])],
            localFile |-> remote, outcome |-> "loaded"]
      ELSE [prompts |-> <<>>, localFile |-> remote, outcome |-> "validation_error"]

\* _save_prompts without its try / except: a failure escapes to the caller
_save_prompts_unguarded(attrs, prompts, remote, localFile, io) ==
  IF "local_file_path" \notin attrs
    THEN [remote |-> remote, localFile |-> localFile, outcome |-> "raised"]
  ELSE IF io = "local_write_fails"
    THEN [remote |-> remote, localFile |-> localFile, outcome |-> "raised"]
  ELSE IF "container_client" \notin attrs
    THEN [remote |-> remote, localFile |-> FileOf(Dump(prompts)),
          outcome |-> "raised"]
  ELSE IF io = "upload_fails"
    THEN [remote |-> remote, localFile |-> FileOf(Dump(prompts)),
          outcome |-> "raised"]
  ELSE [remote |-> FileOf(Dump(prompts)), localFile |-> FileOf(Dump(prompts)),
        outcome |-> "saved"]

\* _save_prompts reading self.file_path, the attribute __init__ does set
_save_prompts_file_path(attrs, prompts, remote, localFile, io) ==
  IF "file_path" \notin attrs \/ io = "local_write_fails"
    THEN [remote |-> remote, localFile |-> localFile, outcome |-> "io_error"]
  ELSE IF "container_client" \notin attrs \/ io = "upload_fails"
    THEN [remote |-> remote, localFile |-> FileOf(Dump(prompts)),
          outcome |-> "io_error"]
  ELSE [remote |-> FileOf(Dump(prompts)), localFile |-> FileOf(Dump(prompts)),
        outcome |-> "saved"]

\* _save_prompts: local write, then upload; every exception is swallowed
_save_prompts(attrs, prompts, remote, localFile, io) ==
  IF "local_file_path" \notin attrs
    THEN [remote |-> remote, localFile |-> localFile, outcome |-> "attribute_error"]
  ELSE IF io = "local_write_fails"
    THEN [remote |-> remote, localFile |-> localFile, outcome |-> "io_error"]
  ELSE IF "container_client" \notin attrs
    THEN [remote |-> remote, localFile |-> FileOf(Dump(prompts)),
          outcome |-> "attribute_error"]
  ELSE IF io = "upload_fails"
    THEN [remote |-> remote, localFile |-> FileOf(Dump(prompts)),
          outcome |-> "io_error"]
  ELSE [remote |-> FileOf(Dump(prompts)), localFile |-> FileOf(Dump(prompts)),
        outcome |-> "saved"]

(* ------------------------------------------------------------------ *)
(* Linear scans                                                        *)
(* ------------------------------------------------------------------ *)
\* the scan called with status = "latest": the first record of the lineage
\* that is still latest
_find_prompt_index_latest(prompts, datapoint, clause) ==
  LET hits == {i \in 1..Len(prompts) :
                 /\ prompts[i].datapoint = datapoint
                 /\ prompts[i].clause = clause
                 /\ prompts[i].status = PyStr("latest")}
  IN IF hits = {} THEN 0 ELSE CHOOSE i \in hits : \A j \in hits : i <= j

\* _find_prompt_index with status = None: the first index (1-based here,
\* 0 for the source's -1) whose datapoint and clause both match
_find_prompt_index(prompts, datapoint, clause) ==
  LET hits == {i \in 1..Len(prompts) :
                 prompts[i].datapoint = datapoint /\ prompts[i].clause = clause}
  IN IF hits = {} THEN 0 ELSE CHOOSE i \in hits : \A j \in hits : i <= j

\* the scan's -1 used as a Python index: it names the last record
_find_prompt_index_by_id_last(prompts, id) ==
  LET hits == {i \in 1..Len(prompts) : prompts[i].id = id}
  IN IF hits = {} THEN Len(prompts)
     ELSE CHOOSE i \in hits : \A j \in hits : i <= j

\* _find_prompt_index_by_id: the first index whose id matches, 0 for -1
_find_prompt_index_by_id(prompts, id) ==
  LET hits == {i \in 1..Len(prompts) : prompts[i].id = id}
  IN IF hits = {} THEN 0 ELSE CHOOSE i \in hits : \A j \in hits : i <= j

(* ------------------------------------------------------------------ *)
(* The operations                                                      *)
(* ------------------------------------------------------------------ *)
\* retirement by removal: the matched record is dropped from the list
SupersedeByRemoval(prompts, index) ==
  SubSeq(prompts, 1, index - 1) \o SubSeq(prompts, index + 1, Len(prompts))

\* self.prompts[existing_prompt_index].status = "superseded" (line 78)
Supersede(prompts, index) ==
  [prompts EXCEPT ![index].status = PyStr("superseded")]

\* create_prompt(prompt_data) with new_id the uuid drawn at line 68.
\* outcome: "returned" (a record), "none" (ValidationError caught), or
\* "raised" (existing_prompt.version + 1 on a version that is no int is a
\* TypeError, which the except clause does not catch; so is anything that
\* _save_prompts lets escape).
create_prompt(attrs, prompts, remote, localFile, prompt_data, new_id, io) ==
  LET data == WithId(prompt_data, new_id)
      unchanged(outcome) ==
        [prompts |-> prompts, remote |-> remote, localFile |-> localFile,
         outcome |-> outcome, ret |-> <<>>, saved |-> "not_called"]
  IN
  IF ~PromptValid(data) THEN unchanged("none")
  ELSE
    LET new_prompt == Prompt(data)
        existing_prompt_index ==
          _find_prompt_index(prompts, new_prompt.datapoint, new_prompt.clause)
    IN
    IF existing_prompt_index # 0
         /\ prompts[existing_prompt_index].version.t # "int"
      THEN unchanged("raised")
    ELSE
      LET versioned ==
            IF existing_prompt_index # 0
              THEN [new_prompt EXCEPT
                      !.version =
                        PyInt(prompts[existing_prompt_index].version.n + 1),
                      !.evaluated = PyInt(0)]
              ELSE new_prompt
          superseded ==
            IF existing_prompt_index # 0
              THEN Supersede(prompts, existing_prompt_index)
              ELSE prompts
          appended == Append(superseded, versioned)
          save == _save_prompts(attrs, appended, remote, localFile, io)
      IN [prompts |-> appended, remote |-> save.remote,
          localFile |-> save.localFile,
          outcome |-> IF save.outcome = "raised" THEN "raised" ELSE "returned",
          ret |-> IF save.outcome = "raised" THEN <<>> ELSE <<versioned>>,
          saved |-> save.outcome]

\* update_prompt(id, updated_data)
update_prompt(attrs, prompts, remote, localFile, id, updated_data, io) ==
  LET index == _find_prompt_index_by_id(prompts, id) IN
  IF index # 0
    THEN
      LET updated_prompt == model_copy(prompts[index], updated_data)
          replaced == [prompts EXCEPT ![index] = updated_prompt]
          save == _save_prompts(attrs, replaced, remote, localFile, io)
      IN [prompts |-> replaced, remote |-> save.remote,
          localFile |-> save.localFile,
          outcome |-> IF save.outcome = "raised" THEN "raised" ELSE "returned",
          ret |-> IF save.outcome = "raised" THEN <<>> ELSE <<updated_prompt>>,
          saved |-> save.outcome]
    ELSE [prompts |-> prompts, remote |-> remote, localFile |-> localFile,
          outcome |-> "none", ret |-> <<>>, saved |-> "not_called"]

\* Python truth value of v, as tested by `if id:` (the one dict of the
\* model is the empty one)
Truthy(v) ==
  CASE v.t = "none" -> FALSE
    [] v.t = "str" -> v.s # ""
    [] v.t = "int" -> v.n # 0
    [] OTHER -> FALSE

\* a keyword argument of get_prompts: the value given, None when omitted
Kwarg(filters, name) ==
  IF name \in DOMAIN filters THEN filters[name] ELSE PyNone

\* get_prompts without its id filter (lines 90-91 missing)
get_prompts_no_id(prompts, filters) ==
  LET Keep(p) ==
        \A name \in {"datapoint", "clause", "status"} :
          Truthy(Kwarg(filters, name)) => p[name] = Kwarg(filters, name)
  IN SelectSeq(prompts, Keep)

\* get_prompts(**filters): each filter whose value is truthy keeps the
\* records whose field equals it (lines 90-97), in collection order
get_prompts(prompts, filters) ==
  LET Keep(p) ==
        \A name \in {"id", "datapoint", "clause", "status"} :
          Truthy(Kwarg(filters, name)) => p[name] = Kwarg(filters, name)
  IN SelectSeq(prompts, Keep)

\* the dict get_prompts_info builds for one record (lines 175-180)
InfoOf(p) ==
  [id |-> p.id, query_prompt |-> p.query_prompt, notes |-> p.notes,
   version |-> p.version]

\* get_prompts_info without the check of search_field (lines 161-163)
get_prompts_info_unchecked(prompts, search_term, search_field) ==
  LET matching_prompts ==
        get_prompts(prompts, [k \in {search_field} |-> search_term])
  IN [i \in 1..Len(matching_prompts) |-> InfoOf(matching_prompts[i])]

\* get_prompts_info(search_term, search_field)
get_prompts_info(prompts, search_term, search_field) ==
  IF search_field \notin {"id", "datapoint", "clause"}
    THEN <<>>
    ELSE LET matching_prompts ==
               get_prompts(prompts, [k \in {search_field} |-> search_term])
         IN [i \in 1..Len(matching_prompts) |-> InfoOf(matching_prompts[i])]

\* PromptManager.__init__: _load_prompts runs at line 27, before
\* container_client is assigned at line 35
PromptManager(remote, localFile, io) ==
  LET load == _load_prompts(AttrsAtLoad, remote, localFile, io)
  IN [prompts |-> load.prompts, localFile |-> load.localFile,
      attrs |-> AttrsAfterInit, loaded |-> load.outcome]

(* ------------------------------------------------------------------ *)
(* Inputs explored                                                     *)
(* ------------------------------------------------------------------ *)
\* (datapoint, clause) keys: two differ in the clause only, two in the
\* datapoint only
LineageKeys == {<<"D1", "C1">>, <<"D1", "C2">>, <<"D2", "C1">>}

BaseInput(k) ==
  [datapoint |-> PyStr(k[1]), clause |-> PyStr(k[2]),
   created_by |-> PyStr("A"), query_prompt |-> PyStr("Q")]

\* the optional keys a caller may add to a create input
CreateExtras ==
  { <<>>,
    [version |-> PyInt(0), id |-> PyStr("mine")],
    [status |-> PyStr("superseded"), evaluated |-> PyStr("1")] }

\* every key with the required fields alone, one key with each extra
ValidCreateInputs ==
  {BaseInput(k) : k \in LineageKeys}
    \cup {BaseInput(<<"D1", "C1">>) @@ x : x \in CreateExtras}

\* inputs that fail validation: a required field missing, a wrong type
InvalidCreateInputs ==
  { [datapoint |-> PyStr("D1"), clause |-> PyStr("C1"),
     query_prompt |-> PyStr("Q")],
    [BaseInput(<<"D1", "C1">>) EXCEPT !.datapoint = PyInt(5)] }

CreateInputs == ValidCreateInputs \cup InvalidCreateInputs

\* the maps of fields a caller may pass to update_prompt
UpdateInputs ==
  { [notes |-> PyStr("x")],
    [id |-> Uuid(1)],
    [version |-> PyNone],
    [datapoint |-> PyInt(5)] }

\* the filters a caller may pass to get_prompts, besides one id
QueryFilters ==
  { <<>>,
    [datapoint |-> PyStr("D1"), clause |-> PyStr("C1"),
     status |-> PyStr("latest")],
    [status |-> PyStr("")] }

\* the (search_term, search_field) pairs a caller may pass to
\* get_prompts_info
InfoInputs ==
  { <<Uuid(1), "id">>, <<PyStr("D1"), "datapoint">>, <<PyStr("C1"), "clause">>,
    <<PyStr("latest"), "status">>, <<PyStr("D1"), "bogus_field">> }

\* a record some other writer left in the remote blob before this process
OldPrompt ==
  Prompt(BaseInput(<<"D1", "C1">>) @@ [id |-> PyStr("old")])

\* the remote blob the process may find when it is constructed
InitialRemotes == {NoFile, FileOf(Dump(<<OldPrompt>>))}

(* ------------------------------------------------------------------ *)
(* The state machine                                                   *)
(* ------------------------------------------------------------------ *)
VARIABLES
  prompts,    \* self.prompts
  attrs,      \* the attributes set on self
  remote,     \* the blob at the remote path
  localFile,  \* the local staging file
  uuids,      \* how many uuids uuid4() has produced
  updates,    \* how many update_prompt calls were made
  lastOp,     \* the last call: "construct", "create", "update", "query"
              \* (get_prompts) or "info" (get_prompts_info)
  argId,      \* its id argument (PyNone when it has none)
  argData,    \* its map argument (<<>> when it has none)
  outcome,    \* "returned", "none" or "raised"
  ret,        \* <<r>> when it returned record r, the list a query
              \* returned, else <<>>
  saved,      \* what its _save_prompts did, "not_called" if none ran
  loaded,     \* what the _load_prompts of the last construction did
  prompts2,   \* self.prompts of a second process on the same remote path
  caller      \* the process that made the last call: "A" (prompts) or
              \* "B" (prompts2)

vars ==
  <<prompts, attrs, remote, localFile, uuids, updates,
    lastOp, argId, argData, outcome, ret, saved, loaded, prompts2, caller>>

Init ==
  \E r \in InitialRemotes, io \in LoadIoModes :
    LET m == PromptManager(r, NoFile, io) IN
      /\ prompts = m.prompts
      /\ attrs = m.attrs
      /\ remote = r
      /\ localFile = m.localFile
      /\ uuids = 0
      /\ updates = 0
      /\ lastOp = "construct"
      /\ argId = PyNone
      /\ argData = <<>>
      /\ outcome = "returned"
      /\ ret = <<>>
      /\ saved = "not_called"
      /\ loaded = m.loaded
      /\ prompts2 = m.prompts
      /\ caller = "A"

\* a new process constructs a PromptManager over the same remote path
Construct ==
  \E io \in LoadIoModes :
    LET m == PromptManager(remote, localFile, io) IN
      /\ prompts' = m.prompts
      /\ attrs' = m.attrs
      /\ localFile' = m.localFile
      /\ lastOp' = "construct"
      /\ argId' = PyNone
      /\ argData' = <<>>
      /\ outcome' = "returned"
      /\ ret' = <<>>
      /\ saved' = "not_called"
      /\ loaded' = m.loaded
      /\ caller' = "A"
      /\ UNCHANGED <<remote, uuids, updates, prompts2>>

Create ==
  /\ uuids < MaxCreates
  /\ \E prompt_data \in CreateInputs, io \in SaveIoModes :
       LET r == create_prompt(attrs, prompts, remote, localFile,
                              prompt_data, Uuid(uuids + 1), io)
       IN /\ prompts' = r.prompts
          /\ remote' = r.remote
          /\ localFile' = r.localFile
          /\ uuids' = uuids + 1
          /\ lastOp' = "create"
          /\ argId' = PyNone
          /\ argData' = prompt_data
          /\ outcome' = r.outcome
          /\ ret' = r.ret
          /\ saved' = r.saved
          /\ caller' = "A"
          /\ UNCHANGED <<attrs, updates, loaded, prompts2>>

\* the ids a caller may pass: those of the stored records and an unknown one
UpdateIds == {prompts[i].id : i \in 1..Len(prompts)} \cup {PyStr("unknown")}

Update ==
  /\ updates < MaxUpdates
  /\ \E id \in UpdateIds, updated_data \in UpdateInputs, io \in SaveIoModes :
       LET r == update_prompt(attrs, prompts, remote, localFile,
                              id, updated_data, io)
       IN /\ prompts' = r.prompts
          /\ remote' = r.remote
          /\ localFile' = r.localFile
          /\ updates' = updates + 1
          /\ lastOp' = "update"
          /\ argId' = id
          /\ argData' = updated_data
          /\ outcome' = r.outcome
          /\ ret' = r.ret
          /\ saved' = r.saved
          /\ caller' = "A"
          /\ UNCHANGED <<attrs, uuids, loaded, prompts2>>

GetPrompts ==
  \E filters \in QueryFilters \cup {[id |-> prompts[i].id] : i \in 1..Len(prompts)} :
    /\ lastOp' = "query"
    /\ argId' = PyNone
    /\ argData' = filters
    /\ outcome' = "returned"
    /\ ret' = get_prompts(prompts, filters)
    /\ saved' = "not_called"
    /\ caller' = "A"
    /\ UNCHANGED <<prompts, attrs, remote, localFile, uuids, updates, loaded,
                   prompts2>>

GetPromptsInfo ==
  \E in \in InfoInputs :
    /\ lastOp' = "info"
    /\ argId' = in[1]
    /\ argData' = [search_field |-> PyStr(in[2])]
    /\ outcome' = "returned"
    /\ ret' = get_prompts_info(prompts, in[1], in[2])
    /\ saved' = "not_called"
    /\ caller' = "A"
    /\ UNCHANGED <<prompts, attrs, remote, localFile, uuids, updates, loaded,
                   prompts2>>

Next == Construct \/ Create \/ Update \/ GetPrompts \/ GetPromptsInfo

Spec == Init /\ [][Next]_vars

(* ------------------------------------------------------------------ *)
(* Two processes on the same remote path and staging file              *)
(* ------------------------------------------------------------------ *)
\* the calls explored for the second process
SecondCreateInputs == {BaseInput(<<"D2", "C1">>)}
SecondUpdateInputs == {[notes |-> PyStr("x")]}

CreateB ==
  /\ uuids < MaxCreates
  /\ \E prompt_data \in SecondCreateInputs, io \in SaveIoModes :
       LET r == create_prompt(AttrsAfterInit, prompts2, remote, localFile,
                              prompt_data, Uuid(uuids + 1), io)
       IN /\ prompts2' = r.prompts
          /\ remote' = r.remote
          /\ localFile' = r.localFile
          /\ uuids' = uuids + 1
          /\ lastOp' = "create"
          /\ argId' = PyNone
          /\ argData' = prompt_data
          /\ outcome' = r.outcome
          /\ ret' = r.ret
          /\ saved' = r.saved
          /\ caller' = "B"
          /\ UNCHANGED <<prompts, attrs, updates, loaded>>

UpdateB ==
  /\ updates < MaxUpdates
  /\ \E i \in 1..Len(prompts2), updated_data \in SecondUpdateInputs,
        io \in SaveIoModes :
       LET r == update_prompt(AttrsAfterInit, prompts2, remote, localFile,
                              prompts2[i].id, updated_data, io)
       IN /\ prompts2' = r.prompts
          /\ remote' = r.remote
          /\ localFile' = r.localFile
          /\ updates' = updates + 1
          /\ lastOp' = "update"
          /\ argId' = prompts2[i].id
          /\ argData' = updated_data
          /\ outcome' = r.outcome
          /\ ret' = r.ret
          /\ saved' = r.saved
          /\ caller' = "B"
          /\ UNCHANGED <<prompts, attrs, uuids, loaded>>

NextTwo == Create \/ Update \/ CreateB \/ UpdateB

SpecTwo == Init /\ [][NextTwo]_vars

(* ------------------------------------------------------------------ *)
(* Vocabulary of the properties                                        *)
(* ------------------------------------------------------------------ *)
\* records i and j belong to the same (datapoint, clause) lineage
SameLineage(ps, i, j) ==
  ps[i].datapoint = ps[j].datapoint /\ ps[i].clause = ps[j].clause

\* the step is a create_prompt call / an update_prompt call
CreateStep == uuids' = uuids + 1
UpdateStep == updates' = updates + 1

\* the schema of section 3 of the specification
SchemaOk(p) ==
  /\ \A f \in RequiredStrFields : p[f].t = "str"
  /\ p.version.t = "int" /\ p.version.n >= 1
  /\ p.evaluated \in {PyInt(0), PyInt(1)}
  /\ p.status \in {PyStr("latest"), PyStr("superseded")}

(* ------------------------------------------------------------------ *)
(* C1                                                                  *)
(* ------------------------------------------------------------------ *)
\* C1: within every (datapoint, clause) lineage the versions are distinct
\* and strictly increasing in collection order.  Stated on the runs that made
\* no update, where creates alone decide it.
C1_VersionsIncreasing ==
  updates = 0 =>
    \A i, j \in 1..Len(prompts) :
      (i < j /\ SameLineage(prompts, i, j)) =>
        /\ prompts[i].version.t = "int"
        /\ prompts[j].version.t = "int"
        /\ prompts[i].version.n < prompts[j].version.n

(* ------------------------------------------------------------------ *)
(* C2                                                                  *)
(* ------------------------------------------------------------------ *)
\* C2: on the runs made of creates, in each lineage the most recently
\* created record has status "latest" and every older one "superseded".
C2_ExactlyNewestIsLatest ==
  updates = 0 =>
    \A i \in 1..Len(prompts) :
      IF \E j \in 1..Len(prompts) : i < j /\ SameLineage(prompts, i, j)
        THEN prompts[i].status = PyStr("superseded")
        ELSE prompts[i].status = PyStr("latest")

(* ------------------------------------------------------------------ *)
(* C3                                                                  *)
(* ------------------------------------------------------------------ *)
\* C3: when a record R = (D, C, latest, V) is stored, a successful create
\* with the same (D, C) returns version V+1, status latest, evaluated 0,
\* turns R to superseded and lengthens the collection by exactly one.
\* Stated for the inputs that leave status to its default.
C3_DuplicateKeyVersioning ==
  [][(CreateStep /\ outcome' = "returned" /\ "status" \notin DOMAIN argData') =>
       \A i \in 1..Len(prompts) :
         ( /\ prompts[i].datapoint = argData'.datapoint
           /\ prompts[i].clause = argData'.clause
           /\ prompts[i].status = PyStr("latest")
           /\ prompts[i].version.t = "int" ) =>
           /\ ret'[1].version = PyInt(prompts[i].version.n + 1)
           /\ ret'[1].status = PyStr("latest")
           /\ ret'[1].evaluated = PyInt(0)
           /\ prompts'[i].status = PyStr("superseded")
           /\ Len(prompts') = Len(prompts) + 1]_vars

(* ------------------------------------------------------------------ *)
(* C4                                                                  *)
(* ------------------------------------------------------------------ *)
\* C4: no two stored records share an id, and no create or update changes
\* the id of a stored record.
C4_IdsUniqueAndImmutable ==
  /\ [](\A i, j \in 1..Len(prompts) : prompts[i].id = prompts[j].id => i = j)
  /\ [][(CreateStep \/ UpdateStep) =>
          \A i \in 1..Len(prompts) :
            i <= Len(prompts') /\ prompts'[i].id = prompts[i].id]_vars

(* ------------------------------------------------------------------ *)
(* C5                                                                  *)
(* ------------------------------------------------------------------ *)
\* C5: after a create or update that returned a record, with no failure of
\* the file system or the blob store, the remote snapshot and the staging
\* file hold exactly the serialized collection.
C5_SnapshotMirrorsMemory ==
  (lastOp \in {"create", "update"} /\ outcome = "returned"
     /\ saved # "io_error") =>
    /\ remote = FileOf(Dump(prompts))
    /\ localFile = FileOf(Dump(prompts))

(* ------------------------------------------------------------------ *)
(* C6                                                                  *)
(* ------------------------------------------------------------------ *)
\* C6: a repository constructed right after a call that saved the
\* collection, with no storage failure in the save or the load, holds a
\* collection equal to the saved one.
C6_SaveLoadRoundTrip ==
  [][( /\ lastOp \in {"create", "update"} /\ outcome = "returned"
       /\ saved # "io_error"
       /\ lastOp' = "construct" /\ loaded' # "io_error" ) =>
       prompts' = prompts]_vars

(* ------------------------------------------------------------------ *)
(* C7                                                                  *)
(* ------------------------------------------------------------------ *)
\* C7: for any stored record with identifier id, update(id, {notes: x})
\* returns that record with notes = x and nothing else changed, stores it
\* at the record's position and leaves all other records as they were.
C7_NotesUpdateFrame ==
  [][(UpdateStep /\ DOMAIN argData' = {"notes"}) =>
       \A i \in 1..Len(prompts) :
         prompts[i].id = argId' =>
           /\ outcome' = "returned"
           /\ ret' = <<[prompts[i] EXCEPT !.notes = argData'.notes]>>
           /\ prompts' = [prompts EXCEPT ![i] = ret'[1]]]_vars

(* ------------------------------------------------------------------ *)
(* C8                                                                  *)
(* ------------------------------------------------------------------ *)
\* C8 as stated: every update, whatever its map, leaves the version and
\* the status of the record it locates as they were.
C8_UpdateKeepsVersionStatus ==
  [][UpdateStep =>
       LET i == _find_prompt_index_by_id(prompts, argId') IN
         i # 0 =>
           /\ prompts'[i].version = prompts[i].version
           /\ prompts'[i].status = prompts[i].status]_vars

\* C8 amended: an update whose map names neither version nor status leaves
\* the version and the status of the record it locates as they were.
C8_PatchWithoutVersionStatus ==
  [][(UpdateStep /\ DOMAIN argData' \cap {"version", "status"} = {}) =>
       LET i == _find_prompt_index_by_id(prompts, argId') IN
         i # 0 =>
           /\ prompts'[i].version = prompts[i].version
           /\ prompts'[i].status = prompts[i].status
           /\ ret'[1].version = prompts[i].version
           /\ ret'[1].status = prompts[i].status]_vars

\* an update without version or status has patched a superseded record
\* that carries version 2
C8_Witness ==
  /\ lastOp = "update" /\ outcome = "returned"
  /\ DOMAIN argData \cap {"version", "status"} = {}
  /\ ret[1].version = PyInt(2)
  /\ ret[1].status = PyStr("superseded")

(* ------------------------------------------------------------------ *)
(* C9                                                                  *)
(* ------------------------------------------------------------------ *)
\* C9: an update that locates a record and whose candidate fails schema
\* validation returns no result, changes nothing and performs no save.
C9_InvalidUpdateRejected ==
  [][UpdateStep =>
       LET i == _find_prompt_index_by_id(prompts, argId') IN
         (i # 0 /\ ~PromptValid(model_copy(prompts[i], argData'))) =>
           /\ outcome' = "none"
           /\ prompts' = prompts
           /\ saved' = "not_called"]_vars

(* ------------------------------------------------------------------ *)
(* C10                                                                 *)
(* ------------------------------------------------------------------ *)
\* C10: every stored record satisfies the Prompt schema: required fields
\* are strings, version is an integer >= 1, evaluated is 0 or 1, status is
\* latest or superseded.
C10_CollectionSatisfiesSchema ==
  \A i \in 1..Len(prompts) : SchemaOk(prompts[i])

(* ------------------------------------------------------------------ *)
(* C11                                                                 *)
(* ------------------------------------------------------------------ *)
\* the step is a get_prompts or get_prompts_info call
QueryStep == lastOp' \in {"query", "info"} /\ UNCHANGED <<uuids, updates>>

\* the fields of an already stored record that the call of this step may
\* write: create flips a status, update overwrites the keys of its map
WrittenFields ==
  IF CreateStep THEN {"status"}
  ELSE IF UpdateStep THEN DOMAIN argData'
  ELSE {}

\* C11: across create, update and query calls the collection never gets
\* shorter, a successful create puts its record at the end, and every
\* record already stored stays at its position.
C11_NeverShrinksNorReorders ==
  [][(CreateStep \/ UpdateStep \/ QueryStep) =>
       /\ Len(prompts') >= Len(prompts)
       /\ (CreateStep /\ outcome' = "returned") =>
            /\ Len(prompts') = Len(prompts) + 1
            /\ prompts'[Len(prompts')] = ret'[1]
       /\ \A i \in 1..Len(prompts) :
            \A f \in Fields \ WrittenFields :
              prompts'[i][f] = prompts[i][f]]_vars

\* a create has superseded the first record of a two-record lineage and
\* appended a third record
C11_Witness ==
  /\ lastOp = "create" /\ outcome = "returned"
  /\ Len(prompts) = 3
  /\ prompts[3] = ret[1]
  /\ prompts[1].id = Uuid(1) /\ prompts[2].id = Uuid(2)
  /\ SameLineage(prompts, 1, 3) /\ SameLineage(prompts, 2, 3)

(* ------------------------------------------------------------------ *)
(* C12                                                                 *)
(* ------------------------------------------------------------------ *)
\* C12: a create that returned record r, immediately followed by
\* query(id = r.id), returns exactly one record, equal to r.
C12_CreateThenFetch ==
  [][( /\ lastOp = "create" /\ outcome = "returned"
       /\ lastOp' = "query" /\ argData' = [id |-> ret[1].id] ) =>
       ret' = <<ret[1]>>]_vars

\* a query by the most recent uuid on a collection of several records has
\* returned the one record last created
C12_Witness ==
  /\ lastOp = "query" /\ argData = [id |-> Uuid(uuids)]
  /\ Len(prompts) >= 2
  /\ ret = <<prompts[Len(prompts)]>>

(* ------------------------------------------------------------------ *)
(* C13                                                                 *)
(* ------------------------------------------------------------------ *)
\* C13: query returns the records whose fields equal every supplied filter
\* value, in collection order; with no filter, the whole collection.
C13_QueryIsConjunctiveFilter ==
  [][lastOp' = "query" =>
       LET Matches(p) == \A k \in DOMAIN argData' : p[k] = argData'[k]
       IN ret' = SelectSeq(prompts, Matches)]_vars

(* ------------------------------------------------------------------ *)
(* C14                                                                 *)
(* ------------------------------------------------------------------ *)
\* C14: an update whose id no stored record has returns no result, leaves
\* the collection unchanged and performs no save.
C14_UnknownIdIsNoOp ==
  [][(UpdateStep /\ \A i \in 1..Len(prompts) : prompts[i].id # argId') =>
       /\ outcome' = "none" /\ ret' = <<>>
       /\ prompts' = prompts
       /\ saved' = "not_called"
       /\ remote' = remote /\ localFile' = localFile]_vars

\* an update with an unknown id has returned nothing on a non-empty
\* collection
C14_Witness ==
  /\ lastOp = "update" /\ outcome = "none"
  /\ argId = PyStr("unknown")
  /\ Len(prompts) >= 2

(* ------------------------------------------------------------------ *)
(* C15                                                                 *)
(* ------------------------------------------------------------------ *)
\* C15: a create whose input fails validation (a required field missing or
\* of the wrong type) returns nothing, raises nothing, leaves the
\* collection unchanged and performs no save.
C15_InvalidCreateIsNoOp ==
  [][(CreateStep /\ argData' \in InvalidCreateInputs) =>
       /\ outcome' = "none" /\ ret' = <<>>
       /\ prompts' = prompts
       /\ saved' = "not_called"
       /\ remote' = remote /\ localFile' = localFile]_vars

\* a create with a wrongly typed datapoint has returned nothing while a
\* record of the lineage it names is stored
C15_Witness ==
  /\ lastOp = "create" /\ outcome = "none"
  /\ argData.datapoint = PyInt(5)
  /\ Len(prompts) >= 1
  /\ prompts[1].status = PyStr("latest")

(* ------------------------------------------------------------------ *)
(* C16                                                                 *)
(* ------------------------------------------------------------------ *)
\* C16: when the save a create or update triggers fails, the call raises
\* nothing, returns its record, and the collection keeps the mutation.
C16_SaveFailureKeepsMutation ==
  [][((CreateStep \/ UpdateStep) /\ saved' \notin {"not_called", "saved"}) =>
       /\ outcome' = "returned" /\ Len(ret') = 1
       /\ CreateStep =>
            /\ Len(prompts') = Len(prompts) + 1
            /\ prompts'[Len(prompts')] = ret'[1]
       /\ UpdateStep =>
            \E i \in 1..Len(prompts) :
              /\ prompts[i].id = argId'
              /\ ret'[1] = model_copy(prompts[i], argData')
              /\ prompts' = [prompts EXCEPT ![i] = ret'[1]]]_vars

\* an update whose save failed has returned the patched record, which the
\* collection holds
C16_Witness ==
  /\ lastOp = "update" /\ outcome = "returned"
  /\ saved \notin {"not_called", "saved"}
  /\ argData = [notes |-> PyStr("x")]
  /\ \E i \in 1..Len(prompts) : prompts[i] = ret[1] /\ prompts[i].notes = PyStr("x")

(* ------------------------------------------------------------------ *)
(* C17                                                                 *)
(* ------------------------------------------------------------------ *)
\* C17: get_prompts_info with a field other than id, datapoint or clause
\* returns an empty list, raises nothing and changes neither the
\* collection nor the snapshot.
C17_InvalidFieldIsSafe ==
  [][( /\ lastOp' = "info"
       /\ argData'.search_field \notin
            {PyStr("id"), PyStr("datapoint"), PyStr("clause")} ) =>
       /\ outcome' = "returned" /\ ret' = <<>>
       /\ prompts' = prompts
       /\ remote' = remote /\ localFile' = localFile]_vars

\* get_prompts_info("latest", "status") has returned nothing although a
\* stored record has that status
C17_Witness ==
  /\ lastOp = "info" /\ argData = [search_field |-> PyStr("status")]
  /\ ret = <<>>
  /\ \E i \in 1..Len(prompts) : prompts[i].status = argId

(* ------------------------------------------------------------------ *)
(* C18                                                                 *)
(* ------------------------------------------------------------------ *)
\* C18: with two processes on one remote path, after a save without storage
\* failure the remote snapshot equals the collection of the process that
\* saved last.
C18_LastWriterWins ==
  (lastOp \in {"create", "update"} /\ outcome = "returned"
     /\ saved # "io_error") =>
    remote = FileOf(Dump(IF caller = "A" THEN prompts ELSE prompts2))

(* ------------------------------------------------------------------ *)
(* C19                                                                 *)
(* ------------------------------------------------------------------ *)
\* C19: a successful create changes, among the records already stored, at
\* most the first one that shares the new record's (datapoint, clause), and
\* only its status, which becomes superseded.
C19_CreateFrame ==
  [][(CreateStep /\ outcome' = "returned") =>
       \A i \in 1..Len(prompts) :
         LET shares(k) == /\ prompts[k].datapoint = ret'[1].datapoint
                          /\ prompts[k].clause = ret'[1].clause
         IN IF shares(i) /\ \A k \in 1..(i - 1) : ~shares(k)
              THEN prompts'[i] =
                     [prompts[i] EXCEPT !.status = PyStr("superseded")]
              ELSE prompts'[i] = prompts[i]]_vars

\* a third create in one lineage has left the second record, which was
\* and is latest, untouched
C19_Witness ==
  /\ lastOp = "create" /\ outcome = "returned"
  /\ Len(prompts) = 3
  /\ SameLineage(prompts, 1, 3) /\ SameLineage(prompts, 2, 3)
  /\ prompts[1].status = PyStr("superseded")
  /\ prompts[2].status = PyStr("latest")
  /\ prompts[3] = ret[1]

====
